---- MODULE Spec2Model ----
(***************************************************************************)
(* Model of app.py, the CO2 footprint tracker: the emission calculator,    *)
(* the SQLite log store (table logs) and the Streamlit script main().      *)
(*                                                                         *)
(* Numbers.  The form's real quantities (km, kWh) are held in tenths of a  *)
(* unit, emission factors in g CO2 (0.001 kg) per unit, so a product of    *)
(* the two is in units of 0.0001 kg; the meal and plastic counts are whole *)
(* numbers.  round(x, 3) yields a value in g.  Python evaluates the sum in *)
(* binary floating point: an exact decimal tie (x ending in ...5 at the    *)
(* fourth decimal) lands just above or just below the tie depending on the *)
(* accumulated representation error, so a tie rounds either way; every     *)
(* other value is at least 0.0001 away from a tie and rounds to nearest.   *)
(***************************************************************************)
EXTENDS Integers, Sequences, FiniteSets, TLC

VARIABLES schema, logs, clock, form, ui

vars == <<schema, logs, clock, form, ui>>

\* ---------- bounds of the model ----------
MaxSubmits == 2
CalcSubmits == 1

\* ---------- CONFIG ----------
Tenths == 10

EMISSION_FACTORS ==
    [transport_km_car |-> 192, transport_km_bus |-> 89, transport_km_bike_walk |-> 0,
     electricity_kwh |-> 820, meat_meal |-> 5000, veg_meal |-> 2000, plastic_item |-> 100]

BASELINE ==
    [car_km_per_day |-> 10, electricity_kwh_per_day |-> 4,
     meat_meals_per_day |-> 1, plastic_items_per_day |-> 2]

TailN == 20
HeadN == 100

\* Python's None (fetch_logs' default user, values not computed in a run).
None == "<None>"

\* ---------- numbers and text ----------
Max(a, b) == IF a >= b THEN a ELSE b

Min(a, b) == IF a <= b THEN a ELSE b

\* round(n / d, k) where n / d is expressed in units of 10^-k: the nearest
\* integers to n / d (both neighbours on a tie).
RoundDiv(n, d) ==
    LET q == n \div d
        r == n % d
    IN  IF 2 * r < d THEN {q} ELSE IF 2 * r > d THEN {q + 1} ELSE {q, q + 1}

\* round(x, 3) for x in units of 0.0001 kg, result in g.
Round3(x) == RoundDiv(x, 10)

\* date.isoformat(): "YYYY-MM-DD" as its sequence of character codes.
isoformat(dt) ==
    LET y == dt[1]
        m == dt[2]
        d == dt[3]
    IN  <<48 + (y \div 1000), 48 + ((y \div 100) % 10), 48 + ((y \div 10) % 10), 48 + (y % 10),
          45, 48 + (m \div 10), 48 + (m % 10), 45, 48 + (d \div 10), 48 + (d % 10)>>

\* SQLite's BINARY collation on TEXT: memcmp, then the shorter first.
RECURSIVE TextLess(_, _)
TextLess(a, b) ==
    IF a = <<>> THEN b # <<>>
    ELSE IF b = <<>> THEN FALSE
    ELSE IF Head(a) # Head(b) THEN Head(a) < Head(b)
    ELSE TextLess(Tail(a), Tail(b))

\* ---------- DB HELPERS ----------
\* CREATE TABLE IF NOT EXISTS logs (...)
init_db(s) == s \cup {"logs"}

\* id INTEGER PRIMARY KEY: the rowid SQLite picks, one more than the largest.
RECURSIVE MaxId(_)
MaxId(rows) == IF rows = <<>> THEN 0 ELSE Max(Head(rows).id, MaxId(Tail(rows)))

\* Variant: the new row takes the largest id in use.
insert_log_stale_id(rows, data) == Append(rows, data @@ [id |-> MaxId(rows)])

\* Variant: INSERT OR REPLACE keyed on (user, date).
insert_log_replace(rows, data) ==
    LET Other(r) == ~(r.user = data.user /\ r.date = data.date)
    IN  Append(SelectSeq(rows, Other), data @@ [id |-> MaxId(rows) + 1])

insert_log(rows, data) ==
    Append(rows,
        [id |-> MaxId(rows) + 1,
         user |-> data.user,
         date |-> data.date,
         car_km |-> data.car_km,
         bus_km |-> data.bus_km,
         bike_walk_km |-> data.bike_walk_km,
         electricity_kwh |-> data.electricity_kwh,
         meat_meals |-> data.meat_meals,
         veg_meals |-> data.veg_meals,
         plastic_items_avoided |-> data.plastic_items_avoided,
         co2_kg |-> data.co2_kg,
         created_at |-> data.created_at])

\* ORDER BY date ASC: rows of equal date stay in rowid order.
RECURSIVE InsertByDate(_, _)
InsertByDate(sorted, row) ==
    IF sorted = <<>> THEN <<row>>
    ELSE IF TextLess(row.date, sorted[Len(sorted)].date)
         THEN Append(InsertByDate(SubSeq(sorted, 1, Len(sorted) - 1), row), sorted[Len(sorted)])
         ELSE Append(sorted, row)

RECURSIVE OrderByDate(_)
OrderByDate(rows) ==
    IF rows = <<>> THEN <<>>
    ELSE InsertByDate(OrderByDate(SubSeq(rows, 1, Len(rows) - 1)), rows[Len(rows)])

Truthy(user) == user # None /\ user # ""

fetch_logs(rows, user) ==
    IF Truthy(user)
    THEN LET Match(r) == r.user = user IN OrderByDate(SelectSeq(rows, Match))
    ELSE OrderByDate(rows)

\* ---------- CALCULATION ----------
\* Variant: a footprint below zero is reported as zero.
calculate_co2_clamped(car_km, bus_km, bike_walk_km, electricity_kwh, meat_meals, veg_meals, plastic_items_avoided) ==
    LET e == EMISSION_FACTORS
    IN  Round3(Max(0, car_km * e.transport_km_car + bus_km * e.transport_km_bus
                      + bike_walk_km * e.transport_km_bike_walk
                      + electricity_kwh * e.electricity_kwh
                      + meat_meals * Tenths * e.meat_meal + veg_meals * Tenths * e.veg_meal
                      - plastic_items_avoided * Tenths * e.plastic_item))

calculate_co2(car_km, bus_km, bike_walk_km, electricity_kwh, meat_meals, veg_meals, plastic_items_avoided) ==
    LET e == EMISSION_FACTORS
        c0 == 0
        c1 == c0 + car_km * e.transport_km_car
        c2 == c1 + bus_km * e.transport_km_bus
        c3 == c2 + bike_walk_km * e.transport_km_bike_walk
        c4 == c3 + electricity_kwh * e.electricity_kwh
        c5 == c4 + meat_meals * Tenths * e.meat_meal
        c6 == c5 + veg_meals * Tenths * e.veg_meal
        c7 == c6 - plastic_items_avoided * Tenths * e.plastic_item
    IN  Round3(c7)

\* Variant: the avoided plastic is subtracted, as calculate_co2 does.
baseline_daily_co2_minus_plastic ==
    LET b == BASELINE
        e == EMISSION_FACTORS
    IN  Round3(b.car_km_per_day * Tenths * e.transport_km_car
               + b.electricity_kwh_per_day * Tenths * e.electricity_kwh
               + b.meat_meals_per_day * Tenths * e.meat_meal
               - b.plastic_items_per_day * Tenths * e.plastic_item)

baseline_daily_co2 ==
    LET b == BASELINE
        e == EMISSION_FACTORS
        b0 == 0
        b1 == b0 + b.car_km_per_day * Tenths * e.transport_km_car
        b2 == b1 + b.electricity_kwh_per_day * Tenths * e.electricity_kwh
        b3 == b2 + b.meat_meals_per_day * Tenths * e.meat_meal
        b4 == b3 + b.plastic_items_per_day * Tenths * e.plastic_item
    IN  Round3(b4)

\* ---------- UI ----------
DisplayCols ==
    <<"date", "car_km", "bus_km", "bike_walk_km", "electricity_kwh",
      "meat_meals", "veg_meals", "plastic_items_avoided", "co2_kg">>

\* df[[...]]: the rows restricted to the displayed columns.
Columns(df) ==
    [i \in 1..Len(df) |-> [c \in {DisplayCols[k] : k \in 1..Len(DisplayCols)} |-> df[i][c]]]

\* DataFrame.tail(n) and DataFrame.head(n)
TailRows(df, n) == SubSeq(df, Max(1, Len(df) - n + 1), Len(df))

HeadRows(df, n) == SubSeq(df, 1, Min(n, Len(df)))

\* df["co2_kg"].sum()
RECURSIVE SumCo2(_)
SumCo2(df) == IF df = <<>> THEN 0 ELSE Head(df).co2_kg + SumCo2(Tail(df))

\* display_df.to_csv(index=False): the header line, then one line per row.
to_csv(display_df) == [header |-> DisplayCols, lines |-> display_df]

\* Variant: the two meal counts change places.
Record_meals_swapped(user, date_input, q, co2, now) ==
    [user |-> user, date |-> isoformat(date_input), car_km |-> q.car_km, bus_km |-> q.bus_km,
     bike_walk_km |-> q.bike_walk_km, electricity_kwh |-> q.electricity_kwh,
     meat_meals |-> q.veg_meals, veg_meals |-> q.meat_meals,
     plastic_items_avoided |-> q.plastic_items_avoided, co2_kg |-> co2, created_at |-> now]

\* The record main() builds from the sidebar and form values.
Record(user, date_input, q, co2, now) ==
    [user |-> user,
     date |-> isoformat(date_input),
     car_km |-> q.car_km,
     bus_km |-> q.bus_km,
     bike_walk_km |-> q.bike_walk_km,
     electricity_kwh |-> q.electricity_kwh,
     meat_meals |-> q.meat_meals,
     veg_meals |-> q.veg_meals,
     plastic_items_avoided |-> q.plastic_items_avoided,
     co2_kg |-> co2,
     created_at |-> now]

\* The "if submitted:" block's effect on the table.
\* Variant: a submission is saved twice.
SavedLogs_twice(submitted, rows, record) ==
    IF submitted THEN insert_log(insert_log(rows, record), record) ELSE rows

SavedLogs(submitted, rows, record) == IF submitted THEN insert_log(rows, record) ELSE rows

\* Variant: the aggregates are taken over the displayed slice.
Dashboard_of_slice(df, avg) ==
    IF df = <<>>
    THEN [empty |-> TRUE, display_df |-> <<>>, total_co2 |-> None, avg_co2 |-> None, csv |-> None]
    ELSE LET display_df == OrderByDate(TailRows(Columns(df), TailN))
         IN  [empty |-> FALSE, display_df |-> display_df, total_co2 |-> SumCo2(display_df),
              avg_co2 |-> avg, csv |-> to_csv(display_df)]

\* What the dashboard section renders from the fetched frame.
Dashboard(df, avg) ==
    IF df = <<>>
    THEN [empty |-> TRUE, display_df |-> <<>>, total_co2 |-> None, avg_co2 |-> None, csv |-> None]
    ELSE LET display_df == OrderByDate(TailRows(Columns(df), TailN))
         IN  [empty |-> FALSE, display_df |-> display_df, total_co2 |-> SumCo2(df),
              avg_co2 |-> avg, csv |-> to_csv(display_df)]

\* One run of the script main(): user, show_logs, show_all are the sidebar
\* text, the "Show my logs" button and the admin checkbox; date_input and q
\* the form values; submitted the form's button.  The record is stamped with
\* datetime.now() when it is built; the clock has ticked by the time the
\* INSERT runs.
main(user, show_logs, date_input, q, submitted, show_all) ==
    LET df_user == fetch_logs(logs, user)
    IN  \E baseline \in baseline_daily_co2 :
        \E co2 \in (IF submitted
                    THEN calculate_co2(q.car_km, q.bus_km, q.bike_walk_km, q.electricity_kwh,
                                       q.meat_meals, q.veg_meals, q.plastic_items_avoided)
                    ELSE {None}) :
        \E saved \in (IF submitted THEN Round3(Max(0, baseline - co2) * Tenths) ELSE {None}) :
        \E pct \in (IF submitted
                    THEN (IF baseline > 0 THEN RoundDiv(saved * 10000, baseline) ELSE {0})
                    ELSE {None}) :
            LET record == Record(user, date_input, q, co2, clock)
                logs1 == SavedLogs(submitted, logs, record)
                df == fetch_logs(logs1, user)
                df_all == fetch_logs(logs1, None)
            IN  \E avg \in (IF df = <<>> THEN {None} ELSE RoundDiv(SumCo2(df), Len(df))) :
                    /\ schema' = init_db(schema)
                    /\ logs' = logs1
                    /\ clock' = IF submitted THEN clock + 1 ELSE clock
                    /\ form' = [q EXCEPT !.date_input = date_input]
                    /\ ui' = [rendered |-> TRUE,
                              user |-> user,
                              submitted |-> submitted,
                              records |-> IF show_logs THEN Len(df_user) ELSE None,
                              baseline |-> baseline,
                              co2 |-> co2,
                              saved |-> saved,
                              pct |-> pct,
                              df |-> df,
                              dashboard |-> Dashboard(df, avg),
                              admin |-> IF show_all THEN HeadRows(df_all, HeadN) ELSE None]

\* ---------- inputs ----------
Users == {"", "user1", "user2"}

Today == <<2026, 11, 2>>

Dates == {<<2026, 2, 10>>, Today}

Quantity(car, bus, bike, el, meat, veg, plastic) ==
    [date_input |-> Today, car_km |-> car, bus_km |-> bus, bike_walk_km |-> bike,
     electricity_kwh |-> el, meat_meals |-> meat, veg_meals |-> veg,
     plastic_items_avoided |-> plastic]

\* The widgets' initial values.
Defaults == Quantity(0, 0, 0, 0, 0, 0, 0)

\* Form fillings of the store specifications.
Quantities == {Quantity(100, 0, 0, 40, 1, 0, 2), Quantity(5, 0, 30, 1, 0, 1, 0)}

\* Form fillings of the calculator specification.
WideQuantities ==
    {Quantity(car, bus, bike, el, meat, veg, plastic) :
        car \in {0, 5, 100}, bus \in {0, 5}, bike \in {0, 30}, el \in {0, 40},
        meat \in {0, 1}, veg \in {0, 1}, plastic \in {0, 2, 60}}

\* The store after n earlier submissions by user1.
RECURSIVE History(_)
History(n) ==
    IF n = 0 THEN <<>>
    ELSE LET q == IF n % 2 = 0 THEN Quantity(100, 0, 0, 40, 1, 0, 2) ELSE Quantity(5, 0, 30, 1, 0, 1, 0)
             dt == IF n % 3 = 0 THEN Today ELSE <<2026, 2, 10>>
             co2 == CHOOSE c \in calculate_co2(q.car_km, q.bus_km, q.bike_walk_km, q.electricity_kwh,
                                               q.meat_meals, q.veg_meals, q.plastic_items_avoided) : TRUE
         IN  insert_log(History(n - 1), Record("user1", dt, q, co2, n - 1))

NotRendered ==
    [rendered |-> FALSE, user |-> None, submitted |-> FALSE, records |-> None,
     baseline |-> None, co2 |-> None, saved |-> None, pct |-> None, df |-> <<>>,
     dashboard |-> Dashboard(<<>>, None), admin |-> None]

\* ---------- the store specification ----------
Init ==
    /\ \/ schema = {} /\ logs = <<>>
       \/ schema = {"logs"} /\ logs = <<>>
    /\ clock = 0
    /\ form = Defaults
    /\ ui = NotRendered

\* A run started by the form's submit button (the sidebar button is not
\* pressed in the same run).
Submit ==
    /\ Len(logs) < MaxSubmits
    /\ \E user \in Users, date_input \in Dates, q \in Quantities, show_all \in BOOLEAN :
            main(user, FALSE, date_input, q, TRUE, show_all)

\* Any other run: the page is loaded, the sidebar button pressed, a widget
\* changed.
Render ==
    \E user \in Users, show_logs \in BOOLEAN, show_all \in BOOLEAN :
        main(user, show_logs, form.date_input, form, FALSE, show_all)

Next == Submit \/ Render

Spec == Init /\ [][Next]_vars

\* ---------- the dashboard specification: a store with a history ----------
InitHistory ==
    /\ schema = {"logs"}
    /\ logs = History(TailN)
    /\ clock = Len(logs)
    /\ form = Defaults
    /\ ui = NotRendered

SubmitHistory ==
    /\ Len(logs) < TailN + MaxSubmits
    /\ \E user \in {"user1", "user2"}, q \in Quantities, show_all \in BOOLEAN :
            main(user, FALSE, Today, q, TRUE, show_all)

RenderHistory ==
    \E user \in {"user1", "user2"}, show_logs \in BOOLEAN, show_all \in BOOLEAN :
        main(user, show_logs, form.date_input, form, FALSE, show_all)

NextHistory == SubmitHistory \/ RenderHistory

SpecHistory == InitHistory /\ [][NextHistory]_vars

\* ---------- the calculator specification ----------
InitCalc ==
    /\ schema = {}
    /\ logs = <<>>
    /\ clock = 0
    /\ form = Defaults
    /\ ui = NotRendered

SubmitCalc ==
    /\ Len(logs) < CalcSubmits
    /\ \E q \in WideQuantities : main("user1", FALSE, Today, q, TRUE, FALSE)

NextCalc == SubmitCalc

SpecCalc == InitCalc /\ [][NextCalc]_vars

\* ---------- properties ----------
Abs(x) == IF x < 0 THEN -x ELSE x

Range(seq) == {seq[i] : i \in 1..Len(seq)}

LastRow(rows) == rows[Len(rows)]

\* The weighted sum of the form's values, in units of 0.0001 kg.
WeightedSum(f) ==
    f.car_km * 192 + f.bus_km * 89 + f.bike_walk_km * 0 + f.electricity_kwh * 820
    + f.meat_meals * 50000 + f.veg_meals * 20000 - f.plastic_items_avoided * 1000

\* C1: for non-negative inputs calculate_co2 is the weighted sum rounded to
\* 3 decimals (a nearest multiple of 0.001 kg), not clamped; all-zero inputs
\* give 0.0 and (10, 0, 0, 4, 1, 0, 2) gives 10.0.
C1_WeightedSum ==
    ui.submitted =>
        /\ 2 * Abs(10 * ui.co2 - WeightedSum(form)) <= 10
        /\ (WeightedSum(form) < -5 => ui.co2 < 0)
        /\ (form = Defaults => ui.co2 = 0)
        /\ (form = Quantity(100, 0, 0, 40, 1, 0, 2) => ui.co2 = 10000)

C1_Witness == ui.submitted /\ ui.co2 < 0 /\ form.car_km > 0 /\ form.plastic_items_avoided > 0

\* C2: the saved-vs-baseline percentage shown on submit is never negative
\* and never above 100 (pct is in hundredths of a percent).
C2_PctWithin100 == ui.submitted => ui.pct >= 0 /\ ui.pct <= 10000

\* The calendar date a stored date text stands for.
DateOf(text) == CHOOSE dt \in Dates : isoformat(dt) = text

Earlier(a, b) ==
    \/ a[1] < b[1]
    \/ a[1] = b[1] /\ a[2] < b[2]
    \/ a[1] = b[1] /\ a[2] = b[2] /\ a[3] < b[3]

\* C3: fetching by user label U returns exactly the stored entries that
\* carry U, each field as inserted, none of another label, by date ascending.
C3_FetchByUser ==
    ui.rendered =>
        /\ Range(ui.df) = {r \in Range(logs) : r.user = ui.user}
        /\ Len(ui.df) = Cardinality({i \in 1..Len(logs) : logs[i].user = ui.user})
        /\ \A i, j \in 1..Len(ui.df) :
                i < j => ~Earlier(DateOf(ui.df[j].date), DateOf(ui.df[i].date))

\* C4: fetching by a user label that has no entry returns an empty result.
C4_EmptyForUnknownUser ==
    (ui.rendered /\ \A r \in Range(logs) : r.user # ui.user) => ui.df = <<>>

\* C5: every stored row's co2_kg is calculate_co2 of the row's own inputs.
C5_StoredCo2 ==
    \A r \in Range(logs) :
        r.co2_kg \in calculate_co2(r.car_km, r.bus_km, r.bike_walk_km, r.electricity_kwh,
                                   r.meat_meals, r.veg_meals, r.plastic_items_avoided)

C5_Witness ==
    /\ Len(logs) = 2
    /\ logs[1].co2_kg # logs[2].co2_kg
    /\ logs[1].meat_meals # logs[1].veg_meals

\* C6: the log is append-only and entries are immutable: every row present
\* before a step is present after it, at the same place, with all fields
\* unchanged.
C6_AppendOnly ==
    [][/\ Len(logs') >= Len(logs)
       /\ \A i \in 1..Len(logs) : logs'[i] = logs[i]]_vars

C6_Witness == Len(logs) = 2 /\ logs[1].user = logs[2].user /\ logs[1].date = logs[2].date

\* C7, as stated: an insert appends one row with a fresh id and with
\* created_at set by the insert operation itself, the time the INSERT runs.
C7_InsertStampsCreatedAt ==
    [][ui'.submitted =>
        /\ Len(logs') = Len(logs) + 1
        /\ \A r \in Range(logs) : r.id # LastRow(logs').id
        /\ LastRow(logs').created_at = clock']_vars

\* C7, amended: an insert appends one row and assigns its id, which is
\* fresh; created_at is the value the caller put in the entry, the time at
\* which main() built the record.
C7_InsertAssignsFreshId ==
    [][ui'.submitted =>
        /\ Len(logs') = Len(logs) + 1
        /\ \A r \in Range(logs) : r.id # LastRow(logs').id
        /\ LastRow(logs').created_at = clock
        /\ LastRow(logs').created_at < clock']_vars

C7_Witness == ui.submitted /\ Len(logs) = 2 /\ logs[1].id # logs[2].id

\* C8: baseline_daily_co2() is the same in every run, whatever is stored or
\* entered: 10*0.192 + 4*0.82 + 1*5.0 + 2*0.1 = 10.4 kg.
C8_BaselineConstant ==
    ui.rendered => ui.baseline = 10 * 192 + 4 * 820 + 1 * 5000 + 2 * 100

C8_Witness == ui.rendered /\ Len(logs) = 2 /\ ui.submitted /\ ui.baseline = 10400

\* The sum of co2_kg over a frame, by index.
RECURSIVE SumTo(_, _)
SumTo(df, n) == IF n = 0 THEN 0 ELSE SumTo(df, n - 1) + df[n].co2_kg

\* C9: on a dashboard with entries the total is the sum of co2_kg over all
\* fetched entries and the average that total over their number (shown to
\* 3 decimals), also when the table and the CSV hold only the last entries.
C9_TotalAndAverage ==
    (ui.rendered /\ ui.df # <<>>) =>
        LET n == Len(ui.df)
            shown == ui.dashboard.display_df
        IN  /\ ui.dashboard.total_co2 = SumTo(ui.df, n)
            /\ 2 * Abs(ui.dashboard.avg_co2 * n - SumTo(ui.df, n)) <= n
            /\ Len(shown) = Min(n, TailN)
            /\ \A k \in 1..Len(shown) : shown[k].co2_kg = ui.df[n - Len(shown) + k].co2_kg
            /\ ui.dashboard.csv.lines = shown

C9_Witness ==
    /\ ui.rendered
    /\ Len(ui.df) > TailN
    /\ Len(ui.dashboard.display_df) = TailN
    /\ ui.dashboard.total_co2 # SumTo(ui.dashboard.display_df, TailN)

\* C10: a submission computes the footprint, inserts exactly one row holding
\* it, and the dashboard of the same run already counts that row in its
\* entries, total and average; a run without a submission inserts nothing.
C10_SubmitCycle ==
    [][/\ ui'.submitted =>
            /\ Len(logs') = Len(logs) + 1
            /\ SubSeq(logs', 1, Len(logs)) = logs
            /\ LastRow(logs').co2_kg = ui'.co2
            /\ LastRow(logs') \in Range(ui'.df)
            /\ Len(ui'.df) = Len(fetch_logs(logs, ui'.user)) + 1
            /\ ui'.dashboard.total_co2 = SumTo(fetch_logs(logs, ui'.user), Len(ui'.df) - 1) + ui'.co2
            /\ 2 * Abs(ui'.dashboard.avg_co2 * Len(ui'.df) - ui'.dashboard.total_co2) <= Len(ui'.df)
       /\ ~ui'.submitted => logs' = logs]_vars

C10_Witness == ui.submitted /\ Len(logs) = 2 /\ Len(ui.df) = 2 /\ ui.dashboard.total_co2 = 2 * ui.co2

====
